---------------------------- MODULE Spec2Model ----------------------------
(***************************************************************************)
(* Stopwatch_Design (src/Stopwatch_Design/main.c): the three interrupt     *)
(* handlers PMOD_BTN_Handler, EduBase_Button_Handler and                   *)
(* Timer_0A_Periodic_Task, and the formatter Calculate_Stopwatch_Value     *)
(* called from the main loop, over the file's static uint8_t globals.      *)
(*                                                                         *)
(* Each handler is an operator from the program state (a record of the     *)
(* globals) to the program state, translated statement by statement; the   *)
(* actions apply one handler to the current state.  The history variables  *)
(* last, pre, snap, ticks and incs record which handler ran last, the      *)
(* state it started from, the state the run started from, and how many     *)
(* ticks advanced time and how often line 251 (milliseconds++) executed.   *)
(* log is the sequence of handlers run, kept only by the specifications    *)
(* that start it empty.  mpc and seen follow a call of                     *)
(* Calculate_Stopwatch_Value store by store: how many of its stores are    *)
(* done, and the digit arrays of the stopwatch states that existed since   *)
(* the call began.  tpc, t0 and intr follow Timer_0A_Periodic_Task         *)
(* statement by statement: the statement it is at, the state it was        *)
(* entered in, and the code of the button handler that preempted it.       *)
(***************************************************************************)
EXTENDS Integers, Sequences, FiniteSets, TLC

VARIABLES
    counter,          \* main.c:38  static uint8_t counter
    ms_elapsed,       \* main.c:48
    milliseconds,     \* main.c:54
    seconds,          \* main.c:55
    minutes,          \* main.c:56
    start_stopwatch,  \* main.c:59  the "running" flag
    reset_stopwatch,  \* main.c:60  the "resetRequested" flag
    rgb_led,          \* colour last written by RGB_LED_Output
    stopwatch_value,  \* main.c:86  uint8_t stopwatch_value[4] of main
    last,             \* history: the handler that ran last and its argument
    pre,              \* history: the program state that handler started from
    snap,             \* history: the program state the run started from
    ticks,            \* history: ticks executed with start_stopwatch = 1
    incs,             \* history: executions of line 251 (milliseconds++)
    log,              \* history: the handlers run so far, or NoLog
    mpc,              \* stores done by the running Calculate_Stopwatch_Value
    seen,             \* history: digit arrays of the states since its entry
    tpc,              \* statement Timer_0A_Periodic_Task is at, 0 outside it
    t0,               \* history: the program state the task was entered in
    intr              \* history: code of the handler that preempted it, or 0

prog == <<counter, ms_elapsed, milliseconds, seconds, minutes,
          start_stopwatch, reset_stopwatch, rgb_led, stopwatch_value>>
vars == <<counter, ms_elapsed, milliseconds, seconds, minutes,
          start_stopwatch, reset_stopwatch, rgb_led, stopwatch_value,
          last, pre, snap, ticks, incs, log, mpc, seen, tpc, t0, intr>>

----------------------------------------------------------------------------
(* Bounds of the model.                                                    *)

\* ticks with start_stopwatch = 1 allowed in Spec and SpecAny
MaxTicks == 3
\* SpecAny starts each counter within Near of either end of its range
Near == 1
\* button codes 0 .. MaxCode are tried besides the four wired ones
MaxCode == 2
\* length of the runs of SpecRun
RunLen == 1000
\* length of the run of SpecWrap
WrapLen == 600000
\* length of the run of SpecE2E
E2ELen == 1500
\* button presses in a run of SpecDec
MaxPresses == 16
\* handler executions in a run of SpecFmt
MaxSteps == 3
\* handler executions in a run of SpecIndep
MaxEvents == 2
\* handler executions in a run of SpecQuirk
MaxLog == 5

----------------------------------------------------------------------------
(* The program state and uint8_t arithmetic.                               *)

\* the current values of the globals, as one record
Cur ==
    [counter |-> counter, ms_elapsed |-> ms_elapsed,
     milliseconds |-> milliseconds, seconds |-> seconds, minutes |-> minutes,
     start_stopwatch |-> start_stopwatch, reset_stopwatch |-> reset_stopwatch,
     rgb_led |-> rgb_led, stopwatch_value |-> stopwatch_value]

\* x++ and x + 1 stored to a uint8_t
Inc8(x) == (x + 1) % 256

\* x - 1 stored to a uint8_t
Dec8(x) == (x + 255) % 256

----------------------------------------------------------------------------
(* PMOD_BTN_Handler, main.c:107-147.                                       *)

\* mutant: CODE_START withdraws a pending reset
M_PMOD_StartCancelsReset(s, pmod_btn_status) ==
    CASE pmod_btn_status = 4 ->
            [s EXCEPT !.rgb_led = "GREEN", !.start_stopwatch = 1,
                      !.reset_stopwatch = 0]
      [] pmod_btn_status = 8 ->
            [s EXCEPT !.rgb_led = "RED", !.start_stopwatch = 0]
      [] pmod_btn_status = 16 ->
            [s EXCEPT !.rgb_led = "OFF", !.reset_stopwatch = 1]
      [] OTHER -> s

\* mutant: CODE_RESET zeroes the counters at once instead of requesting it
M_PMOD_ImmediateReset(s, pmod_btn_status) ==
    CASE pmod_btn_status = 4 ->
            [s EXCEPT !.rgb_led = "GREEN", !.start_stopwatch = 1]
      [] pmod_btn_status = 8 ->
            [s EXCEPT !.rgb_led = "RED", !.start_stopwatch = 0]
      [] pmod_btn_status = 16 ->
            [s EXCEPT !.rgb_led = "OFF", !.reset_stopwatch = 1,
                      !.ms_elapsed = 0, !.milliseconds = 0,
                      !.seconds = 0, !.minutes = 0]
      [] OTHER -> s

\* mutant: the status is tested bit by bit (status & 0x04, ...), not compared
M_PMOD_Bitmask(s, pmod_btn_status) ==
    CASE (pmod_btn_status \div 4) % 2 = 1 ->
            [s EXCEPT !.rgb_led = "GREEN", !.start_stopwatch = 1]
      [] (pmod_btn_status \div 8) % 2 = 1 ->
            [s EXCEPT !.rgb_led = "RED", !.start_stopwatch = 0]
      [] (pmod_btn_status \div 16) % 2 = 1 ->
            [s EXCEPT !.rgb_led = "OFF", !.reset_stopwatch = 1]
      [] OTHER -> s

PMOD_BTN_Handler(s, pmod_btn_status) ==
    CASE pmod_btn_status = 4 ->
            [s EXCEPT !.rgb_led = "GREEN", !.start_stopwatch = 1]
      [] pmod_btn_status = 8 ->
            [s EXCEPT !.rgb_led = "RED", !.start_stopwatch = 0]
      [] pmod_btn_status = 16 ->
            [s EXCEPT !.rgb_led = "OFF", !.reset_stopwatch = 1]
      [] pmod_btn_status = 32 -> s
      [] OTHER -> s

----------------------------------------------------------------------------
(* EduBase_Button_Handler, main.c:161-196.                                 *)

\* mutant: case 0x08 copied from PMOD_BTN_Handler with its store left in
M_EduBase_StopsStopwatch(s, edubase_button_status) ==
    CASE edubase_button_status = 8 ->
            IF s.counter >= 15
              THEN [s EXCEPT !.counter = 0, !.start_stopwatch = 0]
              ELSE [s EXCEPT !.counter = Inc8(s.counter),
                             !.start_stopwatch = 0]
      [] edubase_button_status = 4 ->
            IF s.counter <= 0
              THEN [s EXCEPT !.counter = 15]
              ELSE [s EXCEPT !.counter = Dec8(s.counter)]
      [] OTHER -> s

\* mutant: decrementing stops at zero, as the comment of main.c:153 has it
M_EduBase_DecStopsAtZero(s, edubase_button_status) ==
    CASE edubase_button_status = 8 ->
            IF s.counter >= 15
              THEN [s EXCEPT !.counter = 0]
              ELSE [s EXCEPT !.counter = Inc8(s.counter)]
      [] edubase_button_status = 4 ->
            IF s.counter <= 0
              THEN [s EXCEPT !.counter = 0]
              ELSE [s EXCEPT !.counter = Dec8(s.counter)]
      [] OTHER -> s

EduBase_Button_Handler(s, edubase_button_status) ==
    CASE edubase_button_status = 8 ->
            IF s.counter >= 15
              THEN [s EXCEPT !.counter = 0]
              ELSE [s EXCEPT !.counter = Inc8(s.counter)]
      [] edubase_button_status = 4 ->
            IF s.counter <= 0
              THEN [s EXCEPT !.counter = 15]
              ELSE [s EXCEPT !.counter = Dec8(s.counter)]
      [] OTHER -> s

----------------------------------------------------------------------------
(* Calculate_Stopwatch_Value, main.c:212-227: the four stores in order.    *)

\* mutant: the tens digit computed in place (seconds /= 10)
M_Calc_DividesInPlace(s) ==
    LET s0 == [s  EXCEPT !.stopwatch_value[1] = s.milliseconds]
        s1 == [s0 EXCEPT !.stopwatch_value[2] = s0.seconds % 10]
        s2 == [s1 EXCEPT !.seconds = s1.seconds \div 10,
                         !.stopwatch_value[3] = s1.seconds \div 10]
    IN  [s2 EXCEPT !.stopwatch_value[4] = s2.minutes]

\* mutant: seconds stored whole as the units digit (the % 10 missing)
M_Calc_WholeSeconds(s) ==
    LET s0 == [s  EXCEPT !.stopwatch_value[1] = s.milliseconds]
        s1 == [s0 EXCEPT !.stopwatch_value[2] = s0.seconds]
        s2 == [s1 EXCEPT !.stopwatch_value[3] = s1.seconds \div 10]
    IN  [s2 EXCEPT !.stopwatch_value[4] = s2.minutes]

\* mutant: the two digits of seconds stored the other way round
M_Calc_SwappedDigits(s) ==
    [s EXCEPT !.stopwatch_value =
        <<s.milliseconds, s.seconds \div 10, s.seconds % 10, s.minutes>>]

\* the k-th store of the function alone: lines 215, 219, 223, 226
C_Store(k, s) ==
    CASE k = 1 -> [s EXCEPT !.stopwatch_value[1] = s.milliseconds]
      [] k = 2 -> [s EXCEPT !.stopwatch_value[2] = s.seconds % 10]
      [] k = 3 -> [s EXCEPT !.stopwatch_value[3] = s.seconds \div 10]
      [] k = 4 -> [s EXCEPT !.stopwatch_value[4] = s.minutes]

\* the digit array of program state s: what the four stores write when
\* nothing runs between them
Proj(s) == <<s.milliseconds, s.seconds % 10, s.seconds \div 10, s.minutes>>

Calculate_Stopwatch_Value(s) ==
    LET s0 == [s  EXCEPT !.stopwatch_value[1] = s.milliseconds]
        s1 == [s0 EXCEPT !.stopwatch_value[2] = s0.seconds % 10]
        s2 == [s1 EXCEPT !.stopwatch_value[3] = s1.seconds \div 10]
    IN  [s2 EXCEPT !.stopwatch_value[4] = s2.minutes]

----------------------------------------------------------------------------
(* Timer_0A_Periodic_Task, main.c:243-282, statement by statement.         *)

\* line 247: ms_elapsed++
T_Inc(s) == [s EXCEPT !.ms_elapsed = Inc8(s.ms_elapsed)]

\* mutant: the threshold off by one (ms_elapsed >= 99)
M_T_MsRoll_Early(s) ==
    IF s.ms_elapsed >= 99
      THEN [s EXCEPT !.ms_elapsed = 0, !.milliseconds = Inc8(s.milliseconds)]
      ELSE s

\* lines 248-252
T_MsRoll(s) ==
    IF s.ms_elapsed > 99
      THEN [s EXCEPT !.ms_elapsed = 0, !.milliseconds = Inc8(s.milliseconds)]
      ELSE s

\* mutant: the carry into seconds (line 257) missing
M_T_MilliRoll_NoCarry(s) ==
    IF s.milliseconds > 9 THEN [s EXCEPT !.milliseconds = 0] ELSE s

\* lines 254-258
T_MilliRoll(s) ==
    IF s.milliseconds > 9
      THEN [s EXCEPT !.milliseconds = 0, !.seconds = Inc8(s.seconds)]
      ELSE s

\* mutant: the seconds threshold off by one (seconds > 60)
M_T_SecRoll_Late(s) ==
    IF s.seconds > 60
      THEN [s EXCEPT !.seconds = 0, !.minutes = Inc8(s.minutes)]
      ELSE s

\* lines 260-264
T_SecRoll(s) ==
    IF s.seconds > 59
      THEN [s EXCEPT !.seconds = 0, !.minutes = Inc8(s.minutes)]
      ELSE s

\* mutant: the minutes threshold off by one (minutes > 10)
M_T_MinRoll_Late(s) ==
    IF s.minutes > 10 THEN [s EXCEPT !.minutes = 0] ELSE s

\* lines 266-270
T_MinRoll(s) ==
    IF s.minutes > 9 THEN [s EXCEPT !.minutes = 0] ELSE s

\* mutant: the reset leaves start_stopwatch set (line 275 missing)
M_T_Reset_KeepsRunning(s) ==
    IF s.reset_stopwatch = 1
      THEN [s EXCEPT !.reset_stopwatch = 0,
                     !.ms_elapsed = 0, !.milliseconds = 0,
                     !.seconds = 0, !.minutes = 0]
      ELSE s

\* lines 272-280
T_Reset(s) ==
    IF s.reset_stopwatch = 1
      THEN [s EXCEPT !.reset_stopwatch = 0, !.start_stopwatch = 0,
                     !.ms_elapsed = 0, !.milliseconds = 0,
                     !.seconds = 0, !.minutes = 0]
      ELSE s

\* the states after each statement of the body (lines 247-280), in order
T_Stages(s) ==
    LET a == T_Inc(s)
        b == T_MsRoll(a)
        c == T_MilliRoll(b)
        d == T_SecRoll(c)
        e == T_MinRoll(d)
        f == T_Reset(e)
    IN  <<a, b, c, d, e, f>>

\* mutant: the body is not guarded by start_stopwatch
M_T_Runs_Always(s) == s.start_stopwatch \in {0, 1}

\* line 245: the guard of the whole body
T_Runs(s) == s.start_stopwatch = 1

\* mutant: the reset check sits after the guarded block, not inside it
M_Timer_ResetOutsideGuard(s) ==
    IF T_Runs(s) THEN T_Stages(s)[6] ELSE T_Reset(s)

Timer_0A_Periodic_Task(s) ==
    IF T_Runs(s) THEN T_Stages(s)[6] ELSE s

(* The same function one statement at a time.  The statements are         *)
(* numbered 1 to 20 in source order: 1 the test of line 245, 2 line 247,   *)
(* 3-5 lines 248-251, 6-8 lines 254-257, 9-11 lines 260-263, 12-13 lines   *)
(* 266-268, 14 the test of line 272, 15-20 lines 274-279.                  *)

\* mutant: line 272 tests the running flag again (reset && start)
M_T_Branch(pc, s) ==
    CASE pc = 1 -> s.start_stopwatch = 1
      [] pc = 3 -> s.ms_elapsed > 99
      [] pc = 6 -> s.milliseconds > 9
      [] pc = 9 -> s.seconds > 59
      [] pc = 12 -> s.minutes > 9
      [] pc = 14 -> s.reset_stopwatch = 1 /\ s.start_stopwatch = 1

\* the condition of the if at statement pc
T_Branch(pc, s) ==
    CASE pc = 1 -> s.start_stopwatch = 1
      [] pc = 3 -> s.ms_elapsed > 99
      [] pc = 6 -> s.milliseconds > 9
      [] pc = 9 -> s.seconds > 59
      [] pc = 12 -> s.minutes > 9
      [] pc = 14 -> s.reset_stopwatch = 1

\* where each if goes when its condition is false; 0 leaves the function
T_Else(pc) ==
    CASE pc = 1 -> 0
      [] pc = 3 -> 6
      [] pc = 6 -> 9
      [] pc = 9 -> 12
      [] pc = 12 -> 14
      [] pc = 14 -> 0

\* the program state after statement pc
T_Store(pc, s) ==
    CASE pc = 2 -> [s EXCEPT !.ms_elapsed = Inc8(s.ms_elapsed)]
      [] pc = 4 -> [s EXCEPT !.ms_elapsed = 0]
      [] pc = 5 -> [s EXCEPT !.milliseconds = Inc8(s.milliseconds)]
      [] pc = 7 -> [s EXCEPT !.milliseconds = 0]
      [] pc = 8 -> [s EXCEPT !.seconds = Inc8(s.seconds)]
      [] pc = 10 -> [s EXCEPT !.seconds = 0]
      [] pc = 11 -> [s EXCEPT !.minutes = Inc8(s.minutes)]
      [] pc = 13 -> [s EXCEPT !.minutes = 0]
      [] pc = 15 -> [s EXCEPT !.reset_stopwatch = 0]
      [] pc = 16 -> [s EXCEPT !.start_stopwatch = 0]
      [] pc = 17 -> [s EXCEPT !.ms_elapsed = 0]
      [] pc = 18 -> [s EXCEPT !.milliseconds = 0]
      [] pc = 19 -> [s EXCEPT !.seconds = 0]
      [] pc = 20 -> [s EXCEPT !.minutes = 0]
      [] OTHER -> s

\* the statement executed after statement pc in state s; 0 leaves the function
T_Next(pc, s) ==
    IF pc \in {1, 3, 6, 9, 12, 14}
      THEN IF T_Branch(pc, s) THEN pc + 1 ELSE T_Else(pc)
      ELSE IF pc = 20 THEN 0 ELSE pc + 1

\* whether line 251 (milliseconds++) executes in a tick started in s
T_Line251(s) == T_Runs(s) /\ T_Inc(s).ms_elapsed > 99

----------------------------------------------------------------------------
(* Initial states.                                                         *)

\* the program state after the initialisers of main.c:38-60 and main.c:86;
\* RGB_LED_Init (main.c:80) leaves the indicator dark
InitState ==
    [counter |-> 0, ms_elapsed |-> 0, milliseconds |-> 0, seconds |-> 0,
     minutes |-> 0, start_stopwatch |-> 0, reset_stopwatch |-> 0,
     rgb_led |-> "OFF", stopwatch_value |-> <<0, 0, 0, 0>>]

NoOp == [op |-> "none", code |-> 0]

\* the value of log in the specifications that keep no log
NoLog == <<[op |-> "off", code |-> 0]>>

\* start the run in program state s, with log as given
StartWith(s, l) ==
    /\ counter = s.counter
    /\ ms_elapsed = s.ms_elapsed
    /\ milliseconds = s.milliseconds
    /\ seconds = s.seconds
    /\ minutes = s.minutes
    /\ start_stopwatch = s.start_stopwatch
    /\ reset_stopwatch = s.reset_stopwatch
    /\ rgb_led = s.rgb_led
    /\ stopwatch_value = s.stopwatch_value
    /\ last = NoOp
    /\ pre = s
    /\ snap = s
    /\ ticks = 0
    /\ incs = 0
    /\ log = l
    /\ mpc = 0
    /\ seen = {}
    /\ tpc = 0
    /\ t0 = s
    /\ intr = 0

\* start the run in program state s
StartIn(s) == StartWith(s, NoLog)

\* start the run in program state s and log the handlers
StartLogged(s) == StartWith(s, <<>>)

Init == StartIn(InitState)

\* the values of 0..hi within n of either end
Edge(hi, n) == {x \in 0..hi : x < n \/ x > hi - n}

\* states the program reaches from InitState (START, ticks, STOP/RESET):
\* every counter near a rollover or near zero, any values of the two flags
EdgeStatesN(n) ==
    {[InitState EXCEPT !.ms_elapsed = a, !.milliseconds = b, !.seconds = c,
                       !.minutes = d, !.start_stopwatch = r,
                       !.reset_stopwatch = q,
                       !.rgb_led = IF q = 1 THEN "OFF"
                                   ELSE IF r = 1 THEN "GREEN" ELSE "RED"] :
        a \in Edge(99, n), b \in Edge(9, n), c \in Edge(59, n),
        d \in Edge(9, n), r \in {0, 1}, q \in {0, 1}}

EdgeStates == EdgeStatesN(Near)

InitAny == \E s \in EdgeStates : StartIn(s)

----------------------------------------------------------------------------
(* Actions: one per handler.                                               *)

\* the globals take the values of s; the history records the handler
Stores(s, op, code) ==
    /\ counter' = s.counter
    /\ ms_elapsed' = s.ms_elapsed
    /\ milliseconds' = s.milliseconds
    /\ seconds' = s.seconds
    /\ minutes' = s.minutes
    /\ start_stopwatch' = s.start_stopwatch
    /\ reset_stopwatch' = s.reset_stopwatch
    /\ rgb_led' = s.rgb_led
    /\ stopwatch_value' = s.stopwatch_value
    /\ last' = [op |-> op, code |-> code]
    /\ pre' = Cur
    /\ snap' = snap
    /\ log' = IF log = NoLog THEN log
              ELSE Append(log, [op |-> op, code |-> code])

\* a handler that runs to completion: the main loop stays where it is, and
\* the state the handler leaves has existed during the call in progress
Becomes(s, op, code) ==
    /\ Stores(s, op, code)
    /\ mpc' = mpc
    /\ seen' = IF mpc = 0 THEN seen ELSE seen \cup {Proj(s)}
    /\ UNCHANGED <<tpc, t0, intr>>

PmodButton(code) ==
    /\ Becomes(PMOD_BTN_Handler(Cur, code), "PMOD", code)
    /\ UNCHANGED <<ticks, incs>>

EduBaseButton(code) ==
    /\ Becomes(EduBase_Button_Handler(Cur, code), "EduBase", code)
    /\ UNCHANGED <<ticks, incs>>

MainLoop ==
    /\ Becomes(Calculate_Stopwatch_Value(Cur), "Calculate", 0)
    /\ UNCHANGED <<ticks, incs>>

TimerTick(budget) ==
    /\ T_Runs(Cur) => ticks < budget
    /\ Becomes(Timer_0A_Periodic_Task(Cur), "Timer", 0)
    /\ ticks' = IF T_Runs(Cur) THEN ticks + 1 ELSE ticks
    /\ incs' = IF T_Line251(Cur) THEN incs + 1 ELSE incs

\* the codes the handlers are called with in Spec and SpecAny
Codes == {4, 8, 16, 32} \cup (0..MaxCode)

Next ==
    \/ \E code \in Codes : PmodButton(code)
    \/ \E code \in Codes : EduBaseButton(code)
    \/ TimerTick(MaxTicks)
    \/ MainLoop

\* the program: every handler may run whenever no other is running
Spec == Init /\ [][Next]_vars

\* the stopwatch alone (Source A and the timer), from the edge states
NextSw ==
    \/ \E code \in Codes : PmodButton(code)
    \/ TimerTick(MaxTicks)

SpecAny == InitAny /\ [][NextSw]_vars

\* both button handlers with every value of their uint8_t argument
\* one call, from each of the edge states and both ends of the display counter
InitCodes ==
    \E s \in EdgeStatesN(1), c \in Edge(15, 1) :
        StartIn([s EXCEPT !.counter = c])

NextCodes ==
    \/ last = NoOp /\ \E code \in 0..255 : PmodButton(code)
    \/ last = NoOp /\ \E code \in 0..255 : EduBaseButton(code)

SpecCodes == InitCodes /\ [][NextCodes]_vars

\* RunLen consecutive ticks with the stopwatch running and no reset pending
InitRun ==
    \E s \in EdgeStates :
        /\ s.start_stopwatch = 1
        /\ s.reset_stopwatch = 0
        /\ StartIn(s)

NextRun == TimerTick(RunLen)

SpecRun == InitRun /\ [][NextRun]_vars

\* CODE_START once, then only ticks
StartOnce == last = NoOp /\ PmodButton(4)

NextWrap ==
    \/ StartOnce
    \/ TimerTick(WrapLen)

SpecWrap == Init /\ [][NextWrap]_vars

\* CODE_START once, then ticks, the main loop formatting in between
NextE2E ==
    \/ StartOnce
    \/ last # NoOp /\ TimerTick(E2ELen)
    \/ last # NoOp /\ MainLoop

SpecE2E == Init /\ [][NextE2E]_vars

\* CODE_INC and CODE_DEC in any order, MaxPresses presses from the start
InitDec == StartLogged(InitState)

NextDec ==
    \/ Len(log) < MaxPresses /\ EduBaseButton(8)
    \/ Len(log) < MaxPresses /\ EduBaseButton(4)

SpecDec == InitDec /\ [][NextDec]_vars

\* the main loop and the timer, from every value of the displayed counters:
\* the states the run of SpecWrap passes at ms_elapsed = 0 and 99
FmtStates ==
    {[InitState EXCEPT !.ms_elapsed = a, !.milliseconds = b, !.seconds = c,
                       !.minutes = d, !.start_stopwatch = 1,
                       !.rgb_led = "GREEN"] :
        a \in Edge(99, 1), b \in 0..9, c \in 0..59, d \in 0..9}

InitFmt == \E s \in FmtStates : StartLogged(s)

NextFmt ==
    \/ Len(log) < MaxSteps /\ MainLoop
    \/ Len(log) < MaxSteps /\ TimerTick(MaxSteps)

SpecFmt == InitFmt /\ [][NextFmt]_vars

\* the timer interrupt fires every millisecond for ever (main.c:82-83): the
\* tick is weakly fair, and at least one tick separates two button presses.
\* Time advances only MaxTicks ticks from zero unless a reset is pending.
LiveTick ==
    /\ (T_Runs(Cur) /\ reset_stopwatch = 0) =>
          minutes * 60000 + seconds * 1000 + milliseconds * 100 + ms_elapsed
              < MaxTicks
    /\ Becomes(Timer_0A_Periodic_Task(Cur), "Timer", 0)
    /\ UNCHANGED <<ticks, incs>>

LivePress(code) == last.op \in {"none", "Timer"} /\ PmodButton(code)

NextLive ==
    \/ \E code \in {4, 8, 16} : LivePress(code)
    \/ LiveTick

SpecLive == InitAny /\ [][NextLive]_vars /\ WF_vars(LiveTick)

\* any MaxEvents handlers in a row, from each of the edge states and both
\* ends of the display counter
InitIndep ==
    \E s \in EdgeStatesN(1), c \in Edge(15, 1) :
        StartLogged([s EXCEPT !.counter = c])

NextIndep ==
    \/ Len(log) < MaxEvents /\ \E code \in Codes : PmodButton(code)
    \/ Len(log) < MaxEvents /\ \E code \in Codes : EduBaseButton(code)
    \/ Len(log) < MaxEvents /\ TimerTick(MaxEvents)

SpecIndep == InitIndep /\ [][NextIndep]_vars

\* the handler a log entry names, applied to program state s
Apply(e, s) ==
    CASE e.op = "PMOD" -> PMOD_BTN_Handler(s, e.code)
      [] e.op = "EduBase" -> EduBase_Button_Handler(s, e.code)
      [] e.op = "Timer" -> Timer_0A_Periodic_Task(s)
      [] e.op = "Calculate" -> Calculate_Stopwatch_Value(s)

\* the main loop one store at a time (main.c:88-92, 215-226), the timer
\* interrupt free to run between any two stores
CalcStore ==
    /\ Stores(C_Store(mpc + 1, Cur),
              IF mpc = 3 THEN "Calculate" ELSE "Store", mpc + 1)
    /\ mpc' = (mpc + 1) % 4
    /\ seen' = IF mpc = 0 THEN {Proj(Cur)} ELSE seen
    /\ UNCHANGED <<ticks, incs, tpc, t0, intr>>

NextTorn ==
    \/ CalcStore
    \/ TimerTick(MaxTicks)

SpecTorn == InitAny /\ [][NextTorn]_vars

\* Timer_0A_Periodic_Task one statement at a time: entered when tpc = 0,
\* left when T_Next gives 0
TimerStmt ==
    LET pc == IF tpc = 0 THEN 1 ELSE tpc
        nx == T_Next(pc, Cur)
    IN  /\ (tpc = 0 /\ T_Runs(Cur)) => ticks < MaxTicks
        /\ Stores(T_Store(pc, Cur),
                  IF nx = 0 THEN "TimerExit" ELSE "TimerStmt", pc)
        /\ tpc' = nx
        /\ t0' = IF tpc = 0 THEN Cur ELSE t0
        /\ intr' = IF tpc = 0 THEN 0 ELSE intr
        /\ ticks' = IF tpc = 0 /\ T_Runs(Cur) THEN ticks + 1 ELSE ticks
        /\ incs' = IF pc = 5 THEN incs + 1 ELSE incs
        /\ UNCHANGED <<mpc, seen>>

\* PMOD_BTN_Handler runs to completion between two statements of the task
Preempt(code) ==
    /\ tpc # 0
    /\ intr = 0
    /\ Stores(PMOD_BTN_Handler(Cur, code), "PMOD", code)
    /\ intr' = code
    /\ UNCHANGED <<ticks, incs, mpc, seen, tpc, t0>>

NextPreempt ==
    \/ TimerStmt
    \/ \E code \in {4, 8, 16} : Preempt(code)

SpecPreempt == InitAny /\ [][NextPreempt]_vars

\* START, STOP, RESET and ticks in any order, MaxLog handlers from each
\* stopped edge state
InitQuirk ==
    \E s \in EdgeStatesN(1) : s.start_stopwatch = 0 /\ StartLogged(s)

NextQuirk ==
    \/ Len(log) < MaxLog /\ \E code \in {4, 8, 16} : PmodButton(code)
    \/ Len(log) < MaxLog /\ TimerTick(MaxLog)

SpecQuirk == InitQuirk /\ [][NextQuirk]_vars

----------------------------------------------------------------------------
(* Vocabulary of the properties.                                           *)

\* the four time counters of a program state
Time(s) == <<s.ms_elapsed, s.milliseconds, s.seconds, s.minutes>>

\* the elapsed ticks a program state stands for, in mixed-radix counting
V(s) == s.minutes * 60000 + s.seconds * 1000 + s.milliseconds * 100
        + s.ms_elapsed

\* the ranges of the data model
InRange(s) ==
    /\ s.ms_elapsed \in 0..99
    /\ s.milliseconds \in 0..9
    /\ s.seconds \in 0..59
    /\ s.minutes \in 0..9

RanTimer == last.op = "Timer"
RanPmod(code) == last = [op |-> "PMOD", code |-> code]

----------------------------------------------------------------------------
----------------------------------------------------------------------------
(* C2: a tick that starts with start_stopwatch = 1 and reset_stopwatch = 1 *)
(* ends with reset_stopwatch = 0, start_stopwatch = 0 and all four         *)
(* counters 0, whatever the counters were and whatever rolled over.        *)
C2_ResetAppliedInSameTick ==
    (RanTimer /\ pre.start_stopwatch = 1 /\ pre.reset_stopwatch = 1) =>
        /\ reset_stopwatch = 0
        /\ start_stopwatch = 0
        /\ ms_elapsed = 0
        /\ milliseconds = 0
        /\ seconds = 0
        /\ minutes = 0

\* the reset was applied in a tick in which all four counters rolled over
C2_Witness ==
    /\ RanTimer
    /\ pre.start_stopwatch = 1
    /\ pre.reset_stopwatch = 1
    /\ Time(pre) = <<99, 9, 59, 9>>
    /\ reset_stopwatch = 0

----------------------------------------------------------------------------
----------------------------------------------------------------------------
(* C4: a tick that starts with start_stopwatch = 1 and reset_stopwatch = 0 *)
(* takes the counters to their successor in mixed-radix counting:          *)
(* V after = (V before + 1) mod 600000 with every digit in its range, and  *)
(* from 99, 9, 59, 9 it yields all zeros.                                  *)
C4_TickIsSuccessor ==
    (RanTimer /\ pre.start_stopwatch = 1 /\ pre.reset_stopwatch = 0) =>
        /\ InRange(Cur)
        /\ V(Cur) = (V(pre) + 1) % 600000
        /\ Time(pre) = <<99, 9, 59, 9>> => Time(Cur) = <<0, 0, 0, 0>>
        /\ start_stopwatch = 1
        /\ reset_stopwatch = 0

\* the tick in which all four counters roll over has run
C4_Witness ==
    /\ RanTimer
    /\ pre.start_stopwatch = 1
    /\ pre.reset_stopwatch = 0
    /\ Time(pre) = <<99, 9, 59, 9>>
    /\ Time(Cur) = <<0, 0, 0, 0>>

----------------------------------------------------------------------------
(* C5: between handler executions 0 <= ms_elapsed <= 99,                   *)
(* 0 <= milliseconds <= 9, 0 <= seconds <= 59 and 0 <= minutes <= 9; and   *)
(* after each statement of a tick every counter is at most one above its   *)
(* range, so that no uint8_t increment wraps at 255.                       *)
C5_CountersBounded ==
    /\ InRange(Cur)
    /\ (RanTimer /\ pre.start_stopwatch = 1) =>
          \A i \in 1..Len(T_Stages(pre)) :
              LET m == T_Stages(pre)[i]
              IN  /\ m.ms_elapsed \in 0..100
                  /\ m.milliseconds \in 0..10
                  /\ m.seconds \in 0..60
                  /\ m.minutes \in 0..10
                  /\ m.ms_elapsed = 100 => i = 1
    /\ (RanTimer /\ pre.start_stopwatch = 1) => Cur = T_Stages(pre)[6]

\* a tick has run in which minutes stood at 10 before line 268 cleared it
C5_Witness ==
    /\ RanTimer
    /\ pre.start_stopwatch = 1
    /\ T_Stages(pre)[4].minutes = 10
    /\ T_Stages(pre)[1].ms_elapsed = 100
    /\ minutes = 0

----------------------------------------------------------------------------
(* C6 as stated: after 1000 consecutive ticks with start_stopwatch = 1 and *)
(* no reset, milliseconds has been incremented exactly once (line 251      *)
(* executed once, or the value is one higher modulo 10) and ms_elapsed     *)
(* has its value from before the 1000 ticks modulo 100.                    *)
C6_Original ==
    ticks = 1000 =>
        /\ incs = 1 \/ milliseconds = (snap.milliseconds + 1) % 10
        /\ ms_elapsed % 100 = snap.ms_elapsed % 100

(* C6 amended: milliseconds is incremented exactly once in 100             *)
(* consecutive ticks, and exactly ten times in 1000, which brings it back  *)
(* to its value while seconds advances by one; ms_elapsed has its value    *)
(* from before the ticks in both cases.                                    *)
C6_OncePerHundredTicks ==
    /\ ticks = 100 =>
          /\ incs = 1
          /\ milliseconds = (snap.milliseconds + 1) % 10
          /\ ms_elapsed = snap.ms_elapsed
    /\ ticks = 1000 =>
          /\ incs = 10
          /\ milliseconds = snap.milliseconds
          /\ seconds = (snap.seconds + 1) % 60
          /\ ms_elapsed = snap.ms_elapsed

\* 1000 ticks have run from a state in which every counter was at its top
C6_Witness ==
    /\ ticks = 1000
    /\ Time(snap) = <<99, 9, 59, 9>>
    /\ Time(Cur) = <<99, 9, 0, 0>>
    /\ incs = 10

----------------------------------------------------------------------------
(* C7: from the all-zero state, with start_stopwatch = 1 throughout and    *)
(* no reset, the counters are all zero again after exactly 600000 ticks    *)
(* and at no tick count from 1 to 599999.                                  *)
C7_WrapAtTenMinutes ==
    /\ ticks = 600000 => Time(Cur) = <<0, 0, 0, 0>>
    /\ ticks \in 1..599999 => Time(Cur) # <<0, 0, 0, 0>>
    /\ ticks >= 1 => start_stopwatch = 1 /\ reset_stopwatch = 0

\* the 600000th tick has run
C7_Witness ==
    /\ ticks = 600000
    /\ Time(Cur) = <<0, 0, 0, 0>>
    /\ Time(snap) = <<0, 0, 0, 0>>
    /\ start_stopwatch = 1

----------------------------------------------------------------------------
(* C8: from the initial state, CODE_START and then 1500 ticks give         *)
(* seconds = 1, milliseconds = 5, minutes = 0, ms_elapsed = 0, and         *)
(* Calculate_Stopwatch_Value then writes <<5, 1, 0, 0>>.                   *)
C8_EndToEnd ==
    /\ ticks = 1500 => Time(Cur) = <<0, 5, 1, 0>>
    /\ (ticks = 1500 /\ last.op = "Calculate") =>
          stopwatch_value = <<5, 1, 0, 0>>

\* the formatter has run after the 1500th tick
C8_Witness ==
    /\ ticks = 1500
    /\ last.op = "Calculate"
    /\ pre.stopwatch_value # <<5, 1, 0, 0>>
    /\ stopwatch_value = <<5, 1, 0, 0>>

----------------------------------------------------------------------------
(* C9: PMOD_BTN_Handler with 0x04 sets start_stopwatch to 1, with 0x08     *)
(* sets it to 0, with 0x10 sets reset_stopwatch to 1; in each case the     *)
(* four counters, the other flag, counter and stopwatch_value are          *)
(* unchanged.                                                              *)
C9_ButtonSetsOneFlag ==
    /\ RanPmod(4) =>
          /\ start_stopwatch = 1
          /\ reset_stopwatch = pre.reset_stopwatch
    /\ RanPmod(8) =>
          /\ start_stopwatch = 0
          /\ reset_stopwatch = pre.reset_stopwatch
    /\ RanPmod(16) =>
          /\ reset_stopwatch = 1
          /\ start_stopwatch = pre.start_stopwatch
    /\ last.op = "PMOD" =>
          /\ Time(Cur) = Time(pre)
          /\ counter = pre.counter
          /\ stopwatch_value = pre.stopwatch_value

\* CODE_RESET handled while running at a non-zero time
C9_Witness ==
    /\ RanPmod(16)
    /\ pre.start_stopwatch = 1
    /\ pre.reset_stopwatch = 0
    /\ pre.ms_elapsed > 0
    /\ reset_stopwatch = 1

----------------------------------------------------------------------------
(* C10: PMOD_BTN_Handler with any 8-bit value other than 0x04, 0x08, 0x10  *)
(* (0x20 included), and EduBase_Button_Handler with any 8-bit value other  *)
(* than 0x08 and 0x04, change nothing: flags, counters, display counter    *)
(* and indicator keep their values.                                        *)
C10_UnhandledCodeIsNoOp ==
    /\ (last.op = "PMOD" /\ last.code \notin {4, 8, 16}) => Cur = pre
    /\ (last.op = "EduBase" /\ last.code \notin {8, 4}) => Cur = pre

\* 0x20 handled while running with a reset pending, the counters at their top
C10_Witness ==
    /\ RanPmod(32)
    /\ Time(pre) = <<99, 9, 59, 9>>
    /\ pre.start_stopwatch = 1
    /\ pre.reset_stopwatch = 1
    /\ pre.counter = 15

----------------------------------------------------------------------------
----------------------------------------------------------------------------
(* C12: Calculate_Stopwatch_Value writes milliseconds, seconds mod 10,     *)
(* seconds div 10 and minutes, in this order; each element is in 0..9;     *)
(* and milliseconds = 7, seconds = 45, minutes = 3 give 7, 5, 4, 3.        *)
C12_DigitArray ==
    last.op = "Calculate" =>
        /\ stopwatch_value = <<pre.milliseconds, pre.seconds % 10,
                               pre.seconds \div 10, pre.minutes>>
        /\ \A i \in 1..4 : stopwatch_value[i] \in 0..9
        /\ (pre.milliseconds = 7 /\ pre.seconds = 45 /\ pre.minutes = 3) =>
              stopwatch_value = <<7, 5, 4, 3>>

\* the formatter has run at milliseconds = 7, seconds = 45, minutes = 3
C12_Witness ==
    /\ last.op = "Calculate"
    /\ pre.milliseconds = 7
    /\ pre.seconds = 45
    /\ pre.minutes = 3
    /\ pre.stopwatch_value = <<0, 0, 0, 0>>
    /\ stopwatch_value = <<7, 5, 4, 3>>

----------------------------------------------------------------------------
(* C13: Calculate_Stopwatch_Value changes none of the four counters, the   *)
(* two flags, counter and the indicator; and a second call with no tick    *)
(* or button event since the first leaves the digit array as the first     *)
(* call wrote it.                                                          *)
C13_FormatterReadsOnly ==
    /\ last.op = "Calculate" =>
          /\ Time(Cur) = Time(pre)
          /\ start_stopwatch = pre.start_stopwatch
          /\ reset_stopwatch = pre.reset_stopwatch
          /\ counter = pre.counter
          /\ rgb_led = pre.rgb_led
    /\ (/\ Len(log) >= 2
        /\ log[Len(log)].op = "Calculate"
        /\ log[Len(log) - 1].op = "Calculate") =>
          stopwatch_value = pre.stopwatch_value

\* the formatter has run twice in a row after a tick moved the time
C13_Witness ==
    /\ Len(log) = 3
    /\ log[1].op = "Timer"
    /\ log[2].op = "Calculate"
    /\ log[3].op = "Calculate"
    /\ seconds = 45
    /\ stopwatch_value = <<pre.milliseconds, 5, 4, pre.minutes>>

----------------------------------------------------------------------------
(* C14: with the timer tick firing fairly, whenever reset_stopwatch is 1   *)
(* the reset is eventually applied: a later state has reset_stopwatch = 0  *)
(* and all four counters 0, whatever button events follow.                 *)
C14_ResetEventuallyApplied ==
    (reset_stopwatch = 1) ~>
        (reset_stopwatch = 0 /\ Time(Cur) = <<0, 0, 0, 0>>)

----------------------------------------------------------------------------
(* C15: EduBase_Button_Handler with any code leaves the four counters and  *)
(* the two flags unchanged; PMOD_BTN_Handler and Timer_0A_Periodic_Task    *)
(* leave counter unchanged; and a Source B event followed by a tick or a   *)
(* Source A event, or following it, ends in the state that the two         *)
(* handlers produce in the other order.                                    *)
C15_SourcesIndependent ==
    /\ last.op = "EduBase" =>
          /\ Time(Cur) = Time(pre)
          /\ start_stopwatch = pre.start_stopwatch
          /\ reset_stopwatch = pre.reset_stopwatch
    /\ last.op \in {"PMOD", "Timer"} => counter = pre.counter
    /\ (/\ Len(log) = 2
        /\ "EduBase" \in {log[1].op, log[2].op}
        /\ {log[1].op, log[2].op} \cap {"PMOD", "Timer"} # {}) =>
          Cur = Apply(log[1], Apply(log[2], snap))

\* CODE_INC at counter = 15 after the tick that rolls all four counters over
C15_Witness ==
    /\ Len(log) = 2
    /\ log[1].op = "Timer"
    /\ log[2] = [op |-> "EduBase", code |-> 8]
    /\ Time(snap) = <<99, 9, 59, 9>>
    /\ snap.start_stopwatch = 1
    /\ snap.counter = 15
    /\ Time(Cur) = <<0, 0, 0, 0>>
    /\ counter = 0

----------------------------------------------------------------------------
(* C16: with the timer tick free to run between the four stores of         *)
(* Calculate_Stopwatch_Value, every completed digit array is the digit     *)
(* array of one stopwatch state that existed during that call.             *)
C16_NoTornArray ==
    (last.op = "Calculate" /\ mpc = 0) => stopwatch_value \in seen

----------------------------------------------------------------------------
(* C17: when PMOD_BTN_Handler (START, STOP or RESET) has preempted         *)
(* Timer_0A_Periodic_Task between two of its statements, the state in      *)
(* which the task returns is the state of one of the two serial orders:    *)
(* handler then tick, or tick then handler, from the state the task was    *)
(* entered in.  A task that was not preempted returns in the state of the  *)
(* tick.                                                                   *)
C17_PreemptionSerializable ==
    /\ (last.op = "TimerExit" /\ intr # 0) =>
          \/ Cur = Timer_0A_Periodic_Task(PMOD_BTN_Handler(t0, intr))
          \/ Cur = PMOD_BTN_Handler(Timer_0A_Periodic_Task(t0), intr)
    /\ (last.op = "TimerExit" /\ intr = 0) =>
          Cur = Timer_0A_Periodic_Task(t0)

\* CODE_START arrived inside the reset block, after line 275 cleared
\* start_stopwatch, in the tick that rolled all four counters over
C17_Witness ==
    /\ last.op = "TimerExit"
    /\ intr = 4
    /\ Time(t0) = <<99, 9, 59, 9>>
    /\ t0.reset_stopwatch = 1
    /\ start_stopwatch = 1
    /\ reset_stopwatch = 0
    /\ Time(Cur) = <<0, 0, 0, 0>>

----------------------------------------------------------------------------
(* C18: whenever the indicator shows green, start_stopwatch is 1.          *)
C18_GreenMeansRunning ==
    rgb_led = "GREEN" => start_stopwatch = 1

----------------------------------------------------------------------------
(* C19: reset_stopwatch goes from 1 to 0 only in a tick that starts with   *)
(* start_stopwatch = 1.  So when CODE_RESET is handled while stopped and   *)
(* CODE_START follows, the tick after that CODE_START leaves all four      *)
(* counters 0 and start_stopwatch 0, and they stay so through every later  *)
(* tick until CODE_START is handled again.                                 *)
LogStart == [op |-> "PMOD", code |-> 4]
LogReset == [op |-> "PMOD", code |-> 16]

=============================================================================
